---- MODULE Spec2Model ----
(***************************************************************************)
(* Model of the debounced batch-install queue of                           *)
(* packages/gatsby-cli/src/handlers/plugin-add-utils.ts:                   *)
(* createInstall / debouncedExecute / executeInstalls.                     *)
(*                                                                         *)
(* JavaScript runs each handler to completion between suspension points,   *)
(* so one action is one run-to-completion step: an enqueue, the debounce   *)
(* timer firing (the synchronous prefix of executeInstalls up to           *)
(* `await lock`), the continuation after the lock is granted (up to        *)
(* `await execa`), and the continuation after the installer returned.      *)
(***************************************************************************)
EXTENDS Integers, Sequences, FiniteSets, TLC

\* ---------------------------------------------------------------- bounds
MaxRequests == 3        \* number of createInstall calls in a run
TickLen == 13           \* largest amount of time one clock step advances

\* ------------------------------------------------------------- constants
DebounceWait == 25      \* _.debounce(executeInstalls, 25)

Undefined == "undefined"        \* the JavaScript value undefined
NoTimer == -1                   \* no debounce timer is armed
Free == 0                       \* nobody holds the package.json lock

Names == {"pkg-a", "pkg-b"}
DepTypes == {"production", "development"}
Roots == {"/site1", "/site2"}
PackageManagers == {"yarn", "npm"}
ShortMessages == {"Command failed with exit code 1", "Command failed with ENOENT"}

\* What a caller hands to createInstall as `name`: a resource object
\* {name, version, dependencyType} (the installs list declares resource: any
\* and executeInstalls reads these three properties), or a plain string as
\* IPackageCreateInput declares (a string has none of the properties).
Resources ==
    [kind : {"object"}, name : Names, version : {"1.0.0"}, dependencyType : DepTypes]
    \cup
    [kind : {"string"}, name : {"pkg-a"}, version : {Undefined}, dependencyType : {Undefined}]

VARIABLES
    packageManager,   \* PACKAGE_MANAGER, fixed when the module is loaded
    reqs,             \* every createInstall call so far: [resource, root]
    installs,         \* the pending queue: indices into reqs, in order
    resolveCalls,     \* per request: number of outsideResolve() calls
    rejectCalls,      \* per request: number of outsideReject() calls
    rejectPayload,    \* per request: argument of the last outsideReject()
    timer,            \* time left on the debounce timer, or NoTimer
    timerArgs,        \* arguments of the last debouncedExecute call (root)
    sinceLastCall,    \* time elapsed since the last debouncedExecute call
    firesSinceCall,   \* debounce timer fires since the last call
    flushes,          \* every executeInstalls invocation so far
    lock,             \* holder (flush index) of the package.json lock, or Free
    inFlightBase64Cache,  \* Map: request url -> promise of loadImage()
    resolvedBase64Cache,  \* Map: request url -> fetched body
    promises,         \* every loadImage() call so far: [url, state, body]
    returned,         \* what the last getBase64Image call returned
    imageCalls        \* number of getBase64Image calls so far

imgVars == <<inFlightBase64Cache, resolvedBase64Cache, promises, returned, imageCalls>>

vars == <<packageManager, reqs, installs, resolveCalls, rejectCalls,
          rejectPayload, timer, timerArgs, sinceLastCall, firesSinceCall,
          flushes, lock, imgVars>>

Min(a, b) == IF a < b THEN a ELSE b
Range(s) == {s[k] : k \in 1..Len(s)}

\* ---------------------------------------------- property reads (JS values)
\* i.resource.dependencyType / .name / .version of queue entry i
ResourceOf(i) == reqs[i].resource
DependencyTypeOf(i) ==
    IF ResourceOf(i).kind = "object" THEN ResourceOf(i).dependencyType ELSE Undefined
NameOf(i) ==
    IF ResourceOf(i).kind = "object" THEN ResourceOf(i).name ELSE Undefined
VersionOf(i) ==
    IF ResourceOf(i).kind = "object" THEN ResourceOf(i).version ELSE Undefined

\* ------------------------------------------------------- pure functions
\* getPackageNames: packages.map(n => `${n.name}@${n.version}`);
\* a package name is kept as the triple <<name, "@", version>>
getPackageNames(pkgs) ==
    [k \in 1..Len(pkgs) |-> <<NameOf(pkgs[k]), "@", VersionOf(pkgs[k])>>]

\* a command builder that adds the dev flag for every classification
generateClientCommands_AlwaysDev(pm, depType, packageNames) ==
    IF pm = "yarn" THEN <<"add", "-W", "--dev">> \o packageNames
    ELSE IF pm = "npm" THEN <<"install", "--save-dev">> \o packageNames
    ELSE Undefined

generateClientCommands(pm, depType, packageNames) ==
    IF pm = "yarn"
    THEN (IF depType = "development" THEN <<"add", "-W", "--dev">> ELSE <<"add", "-W">>)
         \o packageNames
    ELSE IF pm = "npm"
    THEN (IF depType = "development" THEN <<"install", "--save-dev">> ELSE <<"install">>)
         \o packageNames
    ELSE Undefined

\* a grouping that hands the whole queue to one flush
PackagesToInstall_WholeQueue(q) == q

\* types[installs[0].resource.dependencyType] of _.groupBy(installs, ...)
PackagesToInstall(q) ==
    SelectSeq(q, LAMBDA i : DependencyTypeOf(i) = DependencyTypeOf(Head(q)))

\* a filter that leaves the serviced requests in the queue
FilterInstalls_KeepAll(q, p) == q

\* installs.filter(i => !packagesToInstall.some(p => i.resource.name === p.resource.name))
FilterInstalls(q, p) ==
    SelectSeq(q, LAMBDA i : ~ \E k \in 1..Len(p) : NameOf(i) = NameOf(p[k]))

\* JSON.stringify of an object literal: the members in order, a member whose
\* value is undefined left out
JSONstringify(members) ==
    SelectSeq(members, LAMBDA m : m[2] # Undefined)

\* a payload that lacks the installationError member
ErrorPayload_NoMarker(shortMessage) ==
    JSONstringify(<< <<"message", shortMessage>>,
                     <<"installationError", Undefined>> >>)

ErrorPayload(shortMessage) ==
    JSONstringify(<< <<"message", shortMessage>>,
                     <<"installationError", "Could not install package">> >>)

\* packagesToInstall.forEach(p => p.outsideResolve())
ResolveAll(calls, group) ==
    [i \in 1..Len(calls) |-> IF i \in Range(group) THEN calls[i] + 1 ELSE calls[i]]

\* a catch block that rejects the first request of the group only
RejectAll_FirstOnly(calls, group) ==
    [i \in 1..Len(calls) |-> IF i = Head(group) THEN calls[i] + 1 ELSE calls[i]]

\* packagesToInstall.forEach(p => p.outsideReject(...)): the call counts
RejectAll(calls, group) ==
    [i \in 1..Len(calls) |-> IF i \in Range(group) THEN calls[i] + 1 ELSE calls[i]]

\* ... and the payloads handed over
RejectPayloads(payloads, group, payload) ==
    [i \in 1..Len(payloads) |-> IF i \in Range(group) THEN payload ELSE payloads[i]]

\* --------------------------------------------------------- the debounce
\* a timer that is armed by the first call of a burst and not restarted
DebounceArm_NoRestart(t) == IF t = NoTimer THEN DebounceWait ELSE t

\* debouncedExecute(root): every call restarts the wait
DebounceArm(t) == DebounceWait

\* time that passes in one clock step: never past a due timer
Advance(t) == Min(TickLen, t)

\* ------------------------------------------------------------- the lock
\* lock(`package.json`) resolves once nobody holds the lock
LockAvailable(l) == l = Free

\* a flush that goes on to the installer without waiting for the lock
AwaitLock_NoWait(l) == TRUE

\* const release = await lock(`package.json`): the flush waits for the lock
AwaitLock(l) == LockAvailable(l)

\* ------------------------------------------------------ executeInstalls
\* The synchronous prefix of executeInstalls(root), lines 106-131, run on
\* queue q: the invocation record it leaves suspended at `await lock`.
\* On an empty queue installs[0] is undefined and reading .resource throws.
StartFlush(q, root, trigger, elapsed) ==
    IF q = << >>
    THEN [pc |-> "threw", trigger |-> trigger, root |-> root,
          depType |-> Undefined, group |-> << >>, commands |-> << >>,
          outcome |-> "TypeError", error |-> Undefined, sinceCall |-> elapsed]
    ELSE [pc |-> "lock", trigger |-> trigger, root |-> root,
          depType |-> DependencyTypeOf(Head(q)),
          group |-> PackagesToInstall(q),
          commands |-> generateClientCommands(packageManager,
                          DependencyTypeOf(Head(q)),
                          getPackageNames(PackagesToInstall(q))),
          outcome |-> "none", error |-> Undefined, sinceCall |-> elapsed]

\* a prefix that leaves the queue as it found it
QueueAfterStart_Unchanged(q) == q

\* the queue the prefix leaves behind
QueueAfterStart(q) ==
    IF q = << >> THEN q ELSE FilterInstalls(q, PackagesToInstall(q))

\* a success path that calls executeInstalls again whatever the queue holds
RunAgain_Always(q) == TRUE

\* `if (installs.length > 0) executeInstalls(root)` after a success
RunAgain(q) == Len(q) > 0

\* ------------------------------------------------------- getBase64Image
MaxCalls == 4           \* number of getBase64Image calls in a run

Urls == {"//images.ctfassets.net/a.png?w=20", "//images.ctfassets.net/b.png?w=20"}
\* a base url is kept as its parts: scheme, host, path
BaseUrls == {<<"//", "images.ctfassets.net", "/a.png">>, <<"//", "example.com", "/a.png">>}
Bodies == {"data:image/png;base64,AAAA", "data:image/png;base64,BBBB"}

\* the imageProps argument: null, or an asset with its base url; requestUrl
\* is the url createUrl(baseUrl, imageOptions) yields for it
ImageProps ==
    [isNull : {TRUE}, baseUrl : {Undefined}, requestUrl : {Undefined}]
    \cup
    [isNull : {FALSE}, baseUrl : BaseUrls, requestUrl : Urls]

\* imageProps.baseUrl.indexOf(`images.ctfassets.net`) === -1
NotContentful(baseUrl) ==
    ~ \E k \in 1..Len(baseUrl) : baseUrl[k] = "images.ctfassets.net"

\* new Map(), Map.get, Map.set, Map.delete
EmptyMap == [k \in {} |-> Undefined]
MapGet(m, k) == IF k \in DOMAIN m THEN m[k] ELSE Undefined
MapSet(m, k, v) == [x \in (DOMAIN m) \cup {k} |-> IF x = k THEN v ELSE m[x]]
MapDelete(m, k) == [x \in (DOMAIN m) \ {k} |-> m[x]]

\* `if (alreadyFetched)` / `if (inFlight)`: undefined is falsy, a body
\* (a non-empty string) and a promise are truthy
Truthy(v) == v # Undefined

\* a then-callback that drops the in-flight entry without caching the body
CacheBody_Forget(m, url, body) == m

\* resolvedBase64Cache.set(requestUrl, body) of the then-callback
CacheBody(m, url, body) == MapSet(m, url, body)

\* the promise of loadImage() that a Map entry refers to, as a Map value
PromiseRef(p) == <<"promise", p>>

\* getBase64Image(imageProps, cache)
getBase64Image(imageProps) ==
    /\ imageCalls < MaxCalls
    /\ imageCalls' = imageCalls + 1
    /\ IF imageProps.isNull \/ NotContentful(imageProps.baseUrl)
       THEN /\ returned' = [kind |-> "null", value |-> Undefined, url |-> Undefined]
            /\ UNCHANGED <<inFlightBase64Cache, resolvedBase64Cache, promises>>
       ELSE LET requestUrl == imageProps.requestUrl
                alreadyFetched == MapGet(resolvedBase64Cache, requestUrl)
                inFlight == MapGet(inFlightBase64Cache, requestUrl)
            IN  IF Truthy(alreadyFetched)
                THEN /\ returned' = [kind |-> "body", value |-> alreadyFetched,
                                     url |-> requestUrl]
                     /\ UNCHANGED <<inFlightBase64Cache, resolvedBase64Cache, promises>>
                ELSE IF Truthy(inFlight)
                THEN /\ returned' = [kind |-> "promise", value |-> inFlight,
                                     url |-> requestUrl]
                     /\ UNCHANGED <<inFlightBase64Cache, resolvedBase64Cache, promises>>
                ELSE /\ promises' = Append(promises,
                            [url |-> requestUrl, state |-> "pending", body |-> Undefined])
                     /\ inFlightBase64Cache' =
                            MapSet(inFlightBase64Cache, requestUrl,
                                   PromiseRef(Len(promises) + 1))
                     /\ returned' = [kind |-> "then", value |-> PromiseRef(Len(promises) + 1),
                                     url |-> requestUrl]
                     /\ UNCHANGED resolvedBase64Cache
    /\ UNCHANGED <<packageManager, reqs, installs, resolveCalls, rejectCalls,
                   rejectPayload, timer, timerArgs, sinceLastCall, firesSinceCall,
                   flushes, lock>>

\* loadImage() of promise p fulfils with body; the then-callback, the first
\* reaction of the promise, runs before any other code: it deletes the
\* in-flight entry and caches the body
LoadImageFulfils(p, body) ==
    /\ promises[p].state = "pending"
    /\ promises' = [promises EXCEPT ![p].state = "fulfilled", ![p].body = body]
    /\ inFlightBase64Cache' = MapDelete(inFlightBase64Cache, promises[p].url)
    /\ resolvedBase64Cache' = CacheBody(resolvedBase64Cache, promises[p].url, body)
    /\ UNCHANGED <<returned, imageCalls>>
    /\ UNCHANGED <<packageManager, reqs, installs, resolveCalls, rejectCalls,
                   rejectPayload, timer, timerArgs, sinceLastCall, firesSinceCall,
                   flushes, lock>>

\* loadImage() of promise p rejects (fetchRemoteFile or readFile failed):
\* the then-callback does not run and the promise stays in the in-flight map
LoadImageRejects(p) ==
    /\ promises[p].state = "pending"
    /\ promises' = [promises EXCEPT ![p].state = "rejected"]
    /\ UNCHANGED <<inFlightBase64Cache, resolvedBase64Cache, returned, imageCalls>>
    /\ UNCHANGED <<packageManager, reqs, installs, resolveCalls, rejectCalls,
                   rejectPayload, timer, timerArgs, sinceLastCall, firesSinceCall,
                   flushes, lock>>

ImgNext ==
    \/ \E imageProps \in ImageProps : getBase64Image(imageProps)
    \/ \E p \in 1..Len(promises), body \in Bodies : LoadImageFulfils(p, body)
    \/ \E p \in 1..Len(promises) : LoadImageRejects(p)

Init ==
    /\ packageManager \in PackageManagers
    /\ reqs = << >>
    /\ installs = << >>
    /\ resolveCalls = << >>
    /\ rejectCalls = << >>
    /\ rejectPayload = << >>
    /\ timer = NoTimer
    /\ timerArgs = Undefined
    /\ sinceLastCall = 0
    /\ firesSinceCall = 0
    /\ flushes = << >>
    /\ lock = Free
    /\ inFlightBase64Cache = EmptyMap
    /\ resolvedBase64Cache = EmptyMap
    /\ promises = << >>
    /\ returned = [kind |-> "none", value |-> Undefined, url |-> Undefined]
    /\ imageCalls = 0

\* the scheduler is fully drained: the queue is empty, no timer is armed
\* and no executeInstalls invocation is in progress
Drained ==
    /\ installs = << >>
    /\ timer = NoTimer
    /\ \A f \in 1..Len(flushes) : flushes[f].pc \notin {"lock", "execa"}

\* a push that puts the new request at the head of the queue
Push_Front(q, i) == <<i>> \o q

\* installs.push({outsideResolve, outsideReject, resource: name})
Push(q, i) == Append(q, i)

\* createInstall({root, name}): push the request, call debouncedExecute(root).
\* The record of the call also notes what the call found: whether the
\* scheduler was drained and how many executeInstalls invocations there were.
createInstall(root, name) ==
    /\ Len(reqs) < MaxRequests
    /\ reqs' = Append(reqs, [resource |-> name, root |-> root,
                             drained |-> Drained, flushesBefore |-> Len(flushes)])
    /\ installs' = Push(installs, Len(reqs) + 1)
    /\ resolveCalls' = Append(resolveCalls, 0)
    /\ rejectCalls' = Append(rejectCalls, 0)
    /\ rejectPayload' = Append(rejectPayload, << >>)
    /\ timer' = DebounceArm(timer)
    /\ timerArgs' = root
    /\ sinceLastCall' = 0
    /\ firesSinceCall' = 0
    /\ UNCHANGED <<packageManager, flushes, lock>>
    /\ UNCHANGED imgVars

\* time passes while the debounce timer runs
Tick ==
    /\ timer > 0
    /\ timer' = timer - Advance(timer)
    /\ sinceLastCall' = Min(DebounceWait, sinceLastCall + Advance(timer))
    /\ UNCHANGED <<packageManager, reqs, installs, resolveCalls, rejectCalls,
                   rejectPayload, timerArgs, firesSinceCall, flushes, lock>>
    /\ UNCHANGED imgVars

\* the debounce timer expires: executeInstalls(lastArgs) runs up to `await lock`
TimerFire ==
    /\ timer = 0
    /\ timer' = NoTimer
    /\ firesSinceCall' = firesSinceCall + 1
    /\ flushes' = Append(flushes, StartFlush(installs, timerArgs, "timer", sinceLastCall))
    /\ installs' = QueueAfterStart(installs)
    /\ UNCHANGED <<packageManager, reqs, resolveCalls, rejectCalls,
                   rejectPayload, timerArgs, sinceLastCall, lock>>
    /\ UNCHANGED imgVars

\* the lock is granted to flush f, which calls execa(PACKAGE_MANAGER, commands, {cwd: root})
LockGranted(f) ==
    /\ flushes[f].pc = "lock"
    /\ AwaitLock(lock)
    /\ lock' = f
    /\ flushes' = [flushes EXCEPT ![f].pc = "execa"]
    /\ UNCHANGED <<packageManager, reqs, installs, resolveCalls, rejectCalls,
                   rejectPayload, timer, timerArgs, sinceLastCall, firesSinceCall>>
    /\ UNCHANGED imgVars

\* execa resolved: release(), resolve the group, run again if installs is not empty
ExecaSucceeds(f) ==
    /\ flushes[f].pc = "execa"
    /\ lock' = Free
    /\ resolveCalls' = ResolveAll(resolveCalls, flushes[f].group)
    /\ LET finished == [flushes EXCEPT ![f].pc = "done", ![f].outcome = "success"]
       IN  IF RunAgain(installs)
           THEN /\ flushes' = Append(finished,
                        StartFlush(installs, flushes[f].root, "recursive", sinceLastCall))
                /\ installs' = QueueAfterStart(installs)
           ELSE /\ flushes' = finished
                /\ installs' = installs
    /\ UNCHANGED <<packageManager, reqs, rejectCalls, rejectPayload,
                   timer, timerArgs, sinceLastCall, firesSinceCall>>
    /\ UNCHANGED imgVars

\* execa rejected with error e: the catch block rejects the group and returns
ExecaFails(f, shortMessage) ==
    /\ flushes[f].pc = "execa"
    /\ rejectCalls' = RejectAll(rejectCalls, flushes[f].group)
    /\ rejectPayload' = RejectPayloads(rejectPayload, flushes[f].group,
                                       ErrorPayload(shortMessage))
    /\ flushes' = [flushes EXCEPT ![f].pc = "done", ![f].outcome = "failure",
                                  ![f].error = shortMessage]
    /\ UNCHANGED <<packageManager, reqs, installs, resolveCalls,
                   timer, timerArgs, sinceLastCall, firesSinceCall, lock>>
    /\ UNCHANGED imgVars

Next ==
    \/ \E root \in Roots, name \in Resources : createInstall(root, name)
    \/ Tick
    \/ TimerFire
    \/ \E f \in 1..Len(flushes) : LockGranted(f)
    \/ \E f \in 1..Len(flushes) : ExecaSucceeds(f)
    \/ \E f \in 1..Len(flushes), m \in ShortMessages : ExecaFails(f, m)

Spec == Init /\ [][Next]_vars

\* the base64 placeholder cache on its own: it shares no state with the queue
ImgSpec == Init /\ [][ImgNext]_vars

\* the debounce timer fires, the lock is granted to a waiting flush whenever
\* it is free, and every installer invocation returns
Fairness ==
    /\ WF_vars(Tick)
    /\ WF_vars(TimerFire)
    /\ \A f \in 1..(2 * MaxRequests) : SF_vars(f \in 1..Len(flushes) /\ LockGranted(f))
    /\ \A f \in 1..(2 * MaxRequests) :
          WF_vars(f \in 1..Len(flushes) /\
                  (ExecaSucceeds(f) \/ \E m \in ShortMessages : ExecaFails(f, m)))

FairSpec == Spec /\ Fairness

TypeOK ==
    /\ packageManager \in PackageManagers
    /\ Len(reqs) <= MaxRequests
    /\ Range(installs) \subseteq 1..Len(reqs)
    /\ timer \in {NoTimer} \cup 0..DebounceWait
    /\ lock \in {Free} \cup 1..Len(flushes)
    /\ Len(flushes) <= 2 * MaxRequests

\* ---------------------------------------------------------------- claims
Requests == 1..Len(reqs)
Flushes == 1..Len(flushes)
SettleCalls(i) == resolveCalls[i] + rejectCalls[i]
Running(f) == flushes[f].pc \in {"lock", "execa"}
TimerFlushes == {f \in Flushes : flushes[f].trigger = "timer"}

\* nothing is left that could move the scheduler: no timer is armed, no
\* installer invocation is outstanding, and no flush waits for a free lock
Quiescent ==
    /\ timer = NoTimer
    /\ \A f \in Flushes : flushes[f].pc # "execa"
    /\ \A f \in Flushes : flushes[f].pc = "lock" => lock # Free

\* C1: every enqueued request is eventually settled; stated on finite runs:
\* once the timer has fired, every installer invocation has returned and no
\* flush waits for a free lock, no request is still pending.
C1_EverySettled ==
    Quiescent => \A i \in Requests : SettleCalls(i) >= 1

\* C2: for each request the number of outsideResolve calls plus the number of
\* outsideReject calls is at most 1, also when flush chains overlap.
C2_SettledAtMostOnce ==
    \A i \in Requests : SettleCalls(i) <= 1

\* a timer-triggered flush and a recursive flush are in progress at the same
\* time, and some request has been settled
C2_Witness ==
    /\ \E f, g \in Flushes :
          /\ flushes[f].trigger = "timer" /\ Running(f)
          /\ flushes[g].trigger = "recursive" /\ Running(g)
    /\ \E i \in Requests : SettleCalls(i) = 1

\* C3: a request that a flush removed from the pending queue belongs to the
\* group that flush services (every request is in the queue or in the group
\* of some flush); a request of another classification stays in the queue.
C3_RemovedAreServiced ==
    \A i \in Requests :
        \/ i \in Range(installs)
        \/ \E f \in Flushes : i \in Range(flushes[f].group)

\* C4: the package.json lock is held only while a flush is inside its
\* installer invocation: it is free again once that flush has ended.
C4_LockHeldOnlyByRunningFlush ==
    lock # Free => flushes[lock].pc = "execa"

\* C5: at most one flush is inside its installer invocation (execa).
C5_MutualExclusion ==
    Cardinality({f \in Flushes : flushes[f].pc = "execa"}) <= 1

\* a timer-triggered flush waits for the lock while another flush is
\* suspended on the installer
C5_Witness ==
    \E f, g \in Flushes :
        /\ flushes[f].pc = "execa"
        /\ flushes[g].pc = "lock"
        /\ flushes[g].trigger = "timer"

\* C6: when a flush settles its group (on success or on failure) while the
\* pending queue is not empty, the same step starts another flush.
C6_RunsAgainAfterSettle ==
    [][\A f \in Flushes :
          (flushes[f].pc = "execa" /\ flushes'[f].pc = "done" /\ installs # << >>)
              => Len(flushes') = Len(flushes) + 1]_vars

\* C7: once a flush has settled, all requests of its group are resolved and
\* none rejected (the installer succeeded), or all are rejected and none
\* resolved (the installer failed).
C7_NoSplitOutcome ==
    \A f \in Flushes : flushes[f].pc = "done" =>
        \/ /\ flushes[f].outcome = "success"
           /\ \A i \in Range(flushes[f].group) :
                 resolveCalls[i] >= 1 /\ rejectCalls[i] = 0
        \/ /\ flushes[f].outcome = "failure"
           /\ \A i \in Range(flushes[f].group) :
                 rejectCalls[i] >= 1 /\ resolveCalls[i] = 0

\* a flush with two or more requests failed, another flush succeeded
C7_Witness ==
    \E f, g \in Flushes :
        /\ flushes[f].pc = "done" /\ flushes[f].outcome = "failure"
        /\ Len(flushes[f].group) >= 2
        /\ flushes[g].pc = "done" /\ flushes[g].outcome = "success"

\* C8: when the installer invocation of a flush failed, every request of the
\* group is rejected, none is resolved, and each rejection carries the
\* installer's short message and the marker `Could not install package`.
C8_FailureRejectsGroup ==
    \A f \in Flushes : flushes[f].outcome = "failure" =>
        \A i \in Range(flushes[f].group) :
            /\ rejectCalls[i] >= 1
            /\ resolveCalls[i] = 0
            /\ rejectPayload[i] =
                 << <<"message", flushes[f].error>>,
                    <<"installationError", "Could not install package">> >>

\* the installer of a flush that services two or more requests has failed
C8_Witness ==
    \E f \in Flushes :
        /\ flushes[f].pc = "done" /\ flushes[f].outcome = "failure"
        /\ flushes[f].error = "Command failed with ENOENT"
        /\ Len(flushes[f].group) >= 2
        /\ flushes[f].trigger = "recursive"

\* C9: the debounce timer starts a flush only when the full delay has passed
\* since the last enqueue, and one burst of enqueues starts exactly one
\* flush: none while the timer of the burst is armed, one once it has fired.
C9_TrailingEdge ==
    /\ \A f \in TimerFlushes : flushes[f].sinceCall = DebounceWait
    /\ timer # NoTimer => firesSinceCall = 0
    /\ (timer = NoTimer /\ Len(reqs) > 0) => firesSinceCall = 1
    /\ Cardinality(TimerFlushes) <= Len(reqs)

\* three enqueues, each within the delay of the previous one, were answered
\* by one timer-started flush
C9_Witness ==
    /\ Len(reqs) = 3
    /\ timer = NoTimer
    /\ Cardinality(TimerFlushes) = 1

\* the scenario of C10: exactly two requests, of different classifications
\* and names, enqueued in one debounce window whose timer has fired, and no
\* installer failure
TwoClassifications ==
    /\ Len(reqs) = 2
    /\ \A i \in Requests : ResourceOf(i).kind = "object"
    /\ DependencyTypeOf(1) # DependencyTypeOf(2)
    /\ NameOf(1) # NameOf(2)
    /\ timer = NoTimer
    /\ Cardinality(TimerFlushes) = 1
    /\ \A f \in Flushes : flushes[f].outcome # "failure"

\* C10: in that scenario two flushes run one after the other, one per
\* classification, each with one installer invocation; when they are done
\* both requests are resolved and the queue is empty.
C10_TwoSequentialFlushes ==
    TwoClassifications =>
        /\ Len(flushes) <= 2
        /\ flushes[1].group = <<1>> /\ flushes[1].trigger = "timer"
        /\ Len(flushes) = 2 =>
              /\ flushes[1].pc = "done"
              /\ flushes[2].group = <<2>> /\ flushes[2].trigger = "recursive"
              /\ flushes[2].depType # flushes[1].depType
              /\ installs = << >>
        /\ (\A f \in Flushes : ~ Running(f)) =>
              /\ Len(flushes) = 2
              /\ \A f \in Flushes : flushes[f].outcome = "success"
              /\ resolveCalls = <<1, 1>> /\ rejectCalls = <<0, 0>>
              /\ installs = << >>

\* the scenario has run to its end
C10_Witness ==
    /\ TwoClassifications
    /\ Len(flushes) = 2
    /\ \A f \in Flushes : flushes[f].pc = "done"

\* the part of a flush's command that follows the verb and the flag
Invoked(f) == flushes[f].pc \in {"execa", "done"}
Started(f) == flushes[f].pc # "threw"
AddVerb == IF packageManager = "yarn" THEN <<"add", "-W">> ELSE <<"install">>
DevFlag == IF packageManager = "yarn" THEN "--dev" ELSE "--save-dev"
GroupNames(f) ==
    [k \in 1..Len(flushes[f].group) |->
        <<NameOf(flushes[f].group[k]), "@", VersionOf(flushes[f].group[k])>>]
CommandNames(f) ==
    SubSeq(flushes[f].commands,
           Len(flushes[f].commands) - Len(flushes[f].group) + 1,
           Len(flushes[f].commands))

\* C11: the installer command of a flush lists every distinct package
\* (name@version) of its group exactly once and no other package.
C11_DistinctPackagesOnce ==
    \A f \in Flushes : Started(f) =>
        /\ Range(CommandNames(f)) = Range(GroupNames(f))
        /\ \A j, k \in 1..Len(CommandNames(f)) :
              j # k => CommandNames(f)[j] # CommandNames(f)[k]

\* the scenario of C12: exactly two production requests enqueued in one
\* debounce window whose timer has fired
TwoProduction ==
    /\ Len(reqs) = 2
    /\ \A i \in Requests :
          ResourceOf(i).kind = "object" /\ DependencyTypeOf(i) = "production"
    /\ timer = NoTimer
    /\ Cardinality(TimerFlushes) = 1

\* C12: the command of a flush is the add verb, then the dev flag if and
\* only if the group's classification is `development`, then the package
\* names of the group; two production requests of one window give one
\* invocation with both names and no dev flag.
C12_CommandByClassification ==
    /\ \A f \in Flushes : Started(f) =>
          LET c == flushes[f].commands
              dev == IF flushes[f].depType = "development" THEN 1 ELSE 0
          IN  /\ \A i \in Range(flushes[f].group) :
                    DependencyTypeOf(i) = flushes[f].depType
              /\ Len(c) = Len(AddVerb) + dev + Len(flushes[f].group)
              /\ SubSeq(c, 1, Len(AddVerb)) = AddVerb
              /\ dev = 1 => c[Len(AddVerb) + 1] = DevFlag
              /\ CommandNames(f) = GroupNames(f)
    /\ TwoProduction =>
          /\ Len(flushes) = 1
          /\ flushes[1].group = <<1, 2>>
          /\ flushes[1].commands = AddVerb \o GroupNames(1)

\* the two-production scenario has had its installer invocation
C12_Witness ==
    /\ TwoProduction
    /\ Invoked(1)
    /\ NameOf(1) # NameOf(2)

\* C15: a request is in the group of at most one installer invocation, and
\* a request that has been settled (in particular rejected) is not in the
\* pending queue.
C15_NeverRetried ==
    \A i \in Requests :
        /\ Cardinality({f \in Flushes : i \in Range(flushes[f].group)}) <= 1
        /\ SettleCalls(i) >= 1 => i \notin Range(installs)

\* a group was rejected and a later flush has been started for another request
C15_Witness ==
    \E f, g \in Flushes :
        /\ f < g
        /\ flushes[f].outcome = "failure"
        /\ Started(g)
        /\ \E i \in Range(flushes[f].group) : rejectCalls[i] = 1

\* C16: a step that starts a flush takes as its group the queued requests
\* with the classification of the head of the queue, and leaves exactly the
\* requests of the other classifications in the queue, in their order.
C16_OneGroupPerFlush ==
    [][(Len(flushes') = Len(flushes) + 1 /\ flushes'[Len(flushes')].pc # "threw") =>
          /\ flushes'[Len(flushes')].group =
                SelectSeq(installs,
                    LAMBDA i : DependencyTypeOf(i) = DependencyTypeOf(Head(installs)))
          /\ installs' =
                SelectSeq(installs,
                    LAMBDA i : DependencyTypeOf(i) # DependencyTypeOf(Head(installs)))]_vars

\* C17: executeInstalls never begins on an empty pending queue (where
\* reading installs[0].resource throws).
C17_NeverStartsOnEmptyQueue ==
    \A f \in Flushes : flushes[f].pc # "threw"

\* C18: an installer invocation runs in the root every request of its
\* group was enqueued with.
C18_InstallsInOwnRoot ==
    \A f \in Flushes : Invoked(f) =>
        \A i \in Range(flushes[f].group) : reqs[i].root = flushes[f].root

\* C13: when a request is enqueued into a fully drained scheduler and no
\* other enqueue follows, the queue holds that request alone until the
\* debounce timer fires, the timer starts exactly one flush, and the group
\* and the command of that flush hold that request alone.
C13_OneFlushAfterDrain ==
    (Len(reqs) > 0 /\ reqs[Len(reqs)].drained) =>
        LET n == Len(reqs)
            b == reqs[n].flushesBefore
        IN  /\ Len(flushes) <= b + 1
            /\ timer # NoTimer => (Len(flushes) = b /\ installs = <<n>>)
            /\ timer = NoTimer =>
                  /\ Len(flushes) = b + 1
                  /\ flushes[b + 1].trigger = "timer"
                  /\ flushes[b + 1].group = <<n>>
                  /\ CommandNames(b + 1) = << <<NameOf(n), "@", VersionOf(n)>> >>
                  /\ installs = << >>

\* earlier requests were serviced, the scheduler drained, and the request
\* enqueued after that has been serviced by its flush
C13_Witness ==
    /\ Len(reqs) = 3
    /\ reqs[3].drained
    /\ reqs[3].flushesBefore = 2
    /\ Len(flushes) = 3
    /\ flushes[3].pc = "done"
    /\ NameOf(3) = NameOf(1)

\* C14: a step that enqueues a request appends it at the tail of the queue,
\* restarts the debounce timer, and changes nothing else: the entries queued
\* before, the executeInstalls invocations, the lock and the resolve/reject
\* calls of the earlier requests are as before, and the new handle is pending.
C14_EnqueueFrame ==
    [][Len(reqs') = Len(reqs) + 1 =>
          /\ installs' = Append(installs, Len(reqs) + 1)
          /\ timer' = DebounceWait
          /\ flushes' = flushes
          /\ lock' = lock
          /\ SubSeq(reqs', 1, Len(reqs)) = reqs
          /\ SubSeq(resolveCalls', 1, Len(reqs)) = resolveCalls
          /\ SubSeq(rejectCalls', 1, Len(reqs)) = rejectCalls
          /\ SubSeq(rejectPayload', 1, Len(reqs)) = rejectPayload
          /\ resolveCalls'[Len(reqs')] = 0
          /\ rejectCalls'[Len(reqs')] = 0]_vars

\* a request has just been enqueued behind another one while a flush is
\* inside its installer invocation
C14_Witness ==
    /\ sinceLastCall = 0 /\ timer = DebounceWait
    /\ Len(installs) >= 2
    /\ installs[Len(installs)] = Len(reqs)
    /\ \E f \in Flushes : flushes[f].pc = "execa"

\* the loadImage() calls (one remote fetch each) made for url u
FetchesOf(u) == {p \in 1..Len(promises) : promises[p].url = u}

\* C19: at most one remote fetch is started per request url and no url is a
\* key of both maps; a call for a url whose fetch is in flight or has failed
\* returns that fetch's promise, a call for a url whose fetch succeeded
\* returns the cached body, and neither starts a fetch.
C19_OneFetchPerUrl ==
    /\ [](\A u \in Urls : Cardinality(FetchesOf(u)) <= 1)
    /\ []((DOMAIN inFlightBase64Cache) \cap (DOMAIN resolvedBase64Cache) = {})
    /\ [][(imageCalls' = imageCalls + 1 /\ returned'.kind # "null") =>
            LET u == returned'.url
            IN  /\ FetchesOf(u) = {} => Len(promises') = Len(promises) + 1
                /\ \A p \in FetchesOf(u) :
                      /\ promises' = promises
                      /\ promises[p].state \in {"pending", "rejected"} =>
                            (returned'.kind = "promise" /\ returned'.value = PromiseRef(p))
                      /\ promises[p].state = "fulfilled" =>
                            (returned'.kind = "body" /\ returned'.value = promises[p].body)]_vars

\* one url was fetched and cached, the fetch of the other failed, and the
\* last call was answered from the cache
C19_Witness ==
    /\ \E p, q \in 1..Len(promises) :
          promises[p].state = "fulfilled" /\ promises[q].state = "rejected"
    /\ imageCalls = MaxCalls
    /\ returned.kind = "body"
====
